---- MODULE Spec2Model ----
(***************************************************************************)
(* Model of the payment-intent pipeline of genai-payment-intent-clarifier: *)
(* the POST handler of app/api/process-payment/route.ts and the class      *)
(* PaymentIntentProcessor of lib/ai-processor.ts.                          *)
(*                                                                         *)
(* JavaScript values are records [t, s, n, a]: t is the typeof-like tag,   *)
(* s the characters of a string (a sequence of one-character strings), n   *)
(* the value of a number and a the elements of an array.                   *)
(***************************************************************************)
EXTENDS Integers, Sequences, FiniteSets, TLC

VARIABLES pc, userInput, extResp, intent, scoreResp, fraudAnalysis,
          formattedPayment, response, failCause, extractCalls, scoreCalls,
          scoringArg

vars == <<pc, userInput, extResp, intent, scoreResp, fraudAnalysis,
          formattedPayment, response, failCause, extractCalls, scoreCalls,
          scoringArg>>

(***************************************************************************)
(* Bounds of the model and constants of the program.                       *)
(***************************************************************************)
MaxDigits == 16
MaxRefLen == 20
RefLimit == 18
AccountDigits == 8
SortCodeStart == 14
DefaultScore == 50
MaxScore == 100
LowBand == 30
HighBand == 70
StatusOK == 200
StatusBadRequest == 400
StatusServerError == 500

(***************************************************************************)
(* JavaScript values.                                                      *)
(***************************************************************************)
Undefined == [t |-> "undefined", s |-> <<>>, n |-> 0, a |-> <<>>]
Null == [t |-> "null", s |-> <<>>, n |-> 0, a |-> <<>>]
Str(chars) == [t |-> "string", s |-> chars, n |-> 0, a |-> <<>>]
Num(k) == [t |-> "number", s |-> <<>>, n |-> k, a |-> <<>>]
Arr(items) == [t |-> "array", s |-> <<>>, n |-> 0, a |-> items]

\* v == null (undefined or null): what the ?. operator short-circuits on
Nullish(v) == v.t \in {"undefined", "null"}

\* ToBoolean(v)
Truthy(v) ==
    \/ v.t = "string" /\ v.s # <<>>
    \/ v.t = "number" /\ v.n # 0
    \/ v.t = "array"

\* v || d
Or(v, d) == IF Truthy(v) THEN v ELSE d

Min(x, y) == IF x < y THEN x ELSE y
Max(x, y) == IF x > y THEN x ELSE y

\* String.prototype.slice(start, end) on a sequence of characters
Slice(chars, start, end) ==
    LET len == Len(chars)
        rel(k) == IF k < 0 THEN Max(len + k, 0) ELSE Min(k, len)
        from == rel(start)
        to == rel(end)
    IN  IF from >= to THEN <<>> ELSE SubSeq(chars, from + 1, to)

\* String.prototype.slice(start): end defaults to the length
SliceFrom(chars, start) == Slice(chars, start, Len(chars))

DigitChars == <<"0", "1", "2", "3", "4", "5", "6", "7", "8", "9">>
IsDigit(c) == \E i \in 1..Len(DigitChars) : DigitChars[i] = c

\* replace(/[^0-9]/g, '')
StripNonDigits(chars) == SelectSeq(chars, IsDigit)

(***************************************************************************)
(* String literals of the program.                                         *)
(***************************************************************************)
sEUR == <<"E", "U", "R">>
sGBP == <<"G", "B", "P">>
sSEPA == <<"S", "E", "P", "A">>
sFasterPayments == <<"F", "a", "s", "t", "e", "r", "P", "a", "y", "m", "e", "n", "t", "s">>
sUnknown == <<"U", "n", "k", "n", "o", "w", "n">>
sLow == <<"l", "o", "w">>
sMedium == <<"m", "e", "d", "i", "u", "m">>
sHigh == <<"h", "i", "g", "h">>
sJohn == <<"J", "o", "h", "n">>
sPayJohn == <<"P", "a", "y", " ", "J", "o", "h", "n">>

\* new Date().toISOString() at the time of the request, and its date part
NowInstant == "now:date+time"
Today == "now:date"

(***************************************************************************)
(* Inference gateway responses.  A completion either rejects (the call     *)
(* raises: network error, timeout), carries no content, or carries text.   *)
(* Text is a JSON document possibly wrapped in a ```json or ``` fence.     *)
(* A JSON document is syntactically invalid, the literal null, a scalar    *)
(* or array (anything that parses and is neither null nor an object), or   *)
(* an object, given by its keys' values (an absent key reads Undefined).   *)
(***************************************************************************)
NoKeys == [k \in {} |-> Undefined]

Json(j, rec) == [j |-> j, rec |-> rec]
Text(open, close, json) == [fenceOpen |-> open, fenceClose |-> close, json |-> json]
Bare(json) == Text("none", FALSE, json)
Fenced(json) == {Bare(json), Text("json", TRUE, json), Text("plain", TRUE, json)}

NoText == Bare(Json("invalid", NoKeys))
Raise == [kind |-> "raise", content |-> NoText]
Empty == [kind |-> "empty", content |-> NoText]
Content(text) == [kind |-> "content", content |-> text]
NoResp == [kind |-> "none", content |-> NoText]

\* parsed.key
Prop(json, key) ==
    IF json.j = "object" /\ key \in DOMAIN json.rec THEN json.rec[key] ELSE Undefined

\* response.replace(/```json\n?/g, '')
replaceJsonFence(text) ==
    IF text.fenceOpen = "json" THEN [text EXCEPT !.fenceOpen = "none"] ELSE text

\* .replace(/```\n?/g, '').trim()
replaceFence(text) ==
    [text EXCEPT !.fenceOpen = IF @ = "plain" THEN "none" ELSE @, !.fenceClose = FALSE]

cleanResponse(text) == replaceFence(replaceJsonFence(text))

\* JSON.parse(text) throws a SyntaxError
ParseThrows(text) ==
    text.fenceOpen # "none" \/ text.fenceClose \/ text.json.j = "invalid"

\* a property read on the parsed value throws a TypeError (the value is null)
ReadThrows(json) == json.j = "null"

(***************************************************************************)
(* Sample strings: account identifiers with 0..MaxDigits digits, bare,     *)
(* prefixed with a country code or grouped with spaces, and references of  *)
(* 0..MaxRefLen characters.                                                *)
(***************************************************************************)
DigitAt(i) == DigitChars[((i * 7 + 2) % 10) + 1]
DigitsOf(k) == [i \in 1..k |-> DigitAt(i)]
Grouped(k) == [i \in 1..(2 * k) |-> IF i % 2 = 1 THEN " " ELSE DigitAt(i \div 2)]
sExampleIban ==
    <<"G", "B", "2", "9", "N", "W", "B", "K", "6", "0", "1", "6", "1", "3", "3", "1",
      "9", "2", "6", "8", "1", "9">>
Ibans ==
    {DigitsOf(k) : k \in 0..MaxDigits}
        \cup {<<"G", "B">> \o DigitsOf(k) : k \in 0..MaxDigits}
        \cup {Grouped(k) : k \in 0..MaxDigits}
        \cup {sExampleIban}

Letters == <<"r", "e", "n", "t", " ">>
RefOf(k) == [i \in 1..k |-> Letters[(i % 5) + 1]]
Refs == {RefOf(k) : k \in 0..MaxRefLen}
sShortRef == RefOf(4)
sLongRef == RefOf(MaxRefLen)

(***************************************************************************)
(* interface PaymentIntent and interface FraudFlags.                       *)
(***************************************************************************)
PaymentIntent(name, iban, amount, currency, reference, confidence, type) ==
    [recipientName |-> name, iban |-> iban, amount |-> amount, currency |-> currency,
     reference |-> reference, confidence |-> confidence, suggestedPaymentType |-> type]

NoIntent ==
    PaymentIntent(Undefined, Undefined, Undefined, Undefined, Undefined, Undefined,
                  Undefined)

FraudFlags(level, flags, score) == [riskLevel |-> level, flags |-> flags, score |-> score]
NoFraud == FraudFlags(Undefined, Undefined, Undefined)

(***************************************************************************)
(* extractPaymentIntent: the record built from the parsed response.        *)
(***************************************************************************)
\* extractedIntent without the currency default
extractedIntent_noDefault(parsed) ==
    PaymentIntent(Prop(parsed, "recipientName"),
                  Prop(parsed, "iban"),
                  Prop(parsed, "amount"),
                  Prop(parsed, "currency"),
                  Prop(parsed, "reference"),
                  Prop(parsed, "confidence"),
                  Prop(parsed, "suggestedPaymentType"))

extractedIntent(parsed) ==
    PaymentIntent(Prop(parsed, "recipientName"),
                  Prop(parsed, "iban"),
                  Prop(parsed, "amount"),
                  Or(Prop(parsed, "currency"), Str(sEUR)),
                  Prop(parsed, "reference"),
                  Prop(parsed, "confidence"),
                  Prop(parsed, "suggestedPaymentType"))

\* ExtractionThrows with content and parse errors swallowed instead of thrown
ExtractionThrows_swallowed(resp) == resp.kind = "raise"

\* extractPaymentIntent throws: no content, or the try block throws
ExtractionThrows(resp) ==
    \/ resp.kind \in {"raise", "empty"}
    \/ ParseThrows(cleanResponse(resp.content))
    \/ ReadThrows(cleanResponse(resp.content).json)

(***************************************************************************)
(* analyzeFraudRisk: the value returned for a completion that resolved.    *)
(***************************************************************************)
AnalysisUnavailable == FraudFlags(Str(sMedium), Arr(<<"Analysis unavailable">>), Num(DefaultScore))
AnalysisError == FraudFlags(Str(sMedium), Arr(<<"Analysis error">>), Num(DefaultScore))

parsedFraudFlags(parsed) ==
    FraudFlags(Prop(parsed, "riskLevel"),
               Or(Prop(parsed, "flags"), Arr(<<>>)),
               Or(Prop(parsed, "score"), Num(DefaultScore)))

fraudRiskOf(resp) ==
    IF resp.kind = "empty"
    THEN AnalysisUnavailable
    ELSE IF ParseThrows(cleanResponse(resp.content))
            \/ ReadThrows(cleanResponse(resp.content).json)
         THEN AnalysisError
         ELSE parsedFraudFlags(cleanResponse(resp.content).json)

(***************************************************************************)
(* The formatters, and the handler's choice between them.                  *)
(***************************************************************************)
NotFormatted == [paymentType |-> "none"]
NullPayment == [paymentType |-> "null"]

\* formatSEPA without the currency default
formatSEPA_noDefault(i) ==
    [paymentType |-> "SEPA",
     creditorName |-> i.recipientName,
     creditorIBAN |-> i.iban,
     amount |-> i.amount,
     currency |-> i.currency,
     remittanceInformation |-> i.reference,
     executionDate |-> Today]

formatSEPA(i) ==
    [paymentType |-> "SEPA",
     creditorName |-> i.recipientName,
     creditorIBAN |-> i.iban,
     amount |-> i.amount,
     currency |-> Or(i.currency, Str(sEUR)),
     remittanceInformation |-> i.reference,
     executionDate |-> Today]

\* x?.method(...) on a value that is neither nullish nor a string: the method
\* is missing (replace on a number or an array, slice on a number)
ReplaceThrows(v) == v.t \in {"number", "array"}
SliceThrows(v) == v.t = "number"
FasterPaymentsThrows(i) == ReplaceThrows(i.iban) \/ SliceThrows(i.reference)

\* formatFasterPayments without the truncation of the reference
formatFasterPayments_untruncated(i) ==
    [paymentType |-> "FasterPayments",
     payeeName |-> i.recipientName,
     payeeAccountNumber |->
        IF Nullish(i.iban) THEN Undefined
        ELSE Str(SliceFrom(StripNonDigits(i.iban.s), 0 - AccountDigits)),
     sortCode |->
        IF Nullish(i.iban) THEN Undefined
        ELSE Str(Slice(StripNonDigits(i.iban.s), 0 - SortCodeStart, 0 - AccountDigits)),
     amount |-> i.amount,
     currency |-> Str(sGBP),
     reference |->
        IF Nullish(i.reference) THEN Undefined
        ELSE Str(i.reference.s),
     paymentDateTime |-> NowInstant]

\* formatFasterPayments with slice(-14, 8) for the sort code
formatFasterPayments_sortCodeEnd(i) ==
    [paymentType |-> "FasterPayments",
     payeeName |-> i.recipientName,
     payeeAccountNumber |->
        IF Nullish(i.iban) THEN Undefined
        ELSE Str(SliceFrom(StripNonDigits(i.iban.s), 0 - AccountDigits)),
     sortCode |->
        IF Nullish(i.iban) THEN Undefined
        ELSE Str(Slice(StripNonDigits(i.iban.s), 0 - SortCodeStart, AccountDigits)),
     amount |-> i.amount,
     currency |-> Str(sGBP),
     reference |->
        IF Nullish(i.reference) THEN Undefined
        ELSE Str(Slice(i.reference.s, 0, RefLimit)),
     paymentDateTime |-> NowInstant]

formatFasterPayments(i) ==
    [paymentType |-> "FasterPayments",
     payeeName |-> i.recipientName,
     payeeAccountNumber |->
        IF Nullish(i.iban) THEN Undefined
        ELSE Str(SliceFrom(StripNonDigits(i.iban.s), 0 - AccountDigits)),
     sortCode |->
        IF Nullish(i.iban) THEN Undefined
        ELSE Str(Slice(StripNonDigits(i.iban.s), 0 - SortCodeStart, 0 - AccountDigits)),
     amount |-> i.amount,
     currency |-> Str(sGBP),
     reference |->
        IF Nullish(i.reference) THEN Undefined
        ELSE Str(Slice(i.reference.s, 0, RefLimit)),
     paymentDateTime |-> NowInstant]

\* POST: the formatter the handler calls throws
FormatThrows(i) ==
    i.suggestedPaymentType = Str(sFasterPayments) /\ FasterPaymentsThrows(i)

\* POST: let formattedPayment = null; if ... else if ...
formatByType(i) ==
    IF i.suggestedPaymentType = Str(sSEPA) THEN formatSEPA(i)
    ELSE IF i.suggestedPaymentType = Str(sFasterPayments) THEN formatFasterPayments(i)
    ELSE NullPayment

(***************************************************************************)
(* The handler's responses.                                                *)
(***************************************************************************)
NoResponse ==
    [status |-> 0, success |-> FALSE, error |-> "", hasData |-> FALSE,
     originalInput |-> Undefined, parsedIntent |-> NoIntent, fraudAnalysis |-> NoFraud,
     formattedPayment |-> NotFormatted, processingTimestamp |-> ""]

ErrorResponse(status, message) ==
    [NoResponse EXCEPT !.status = status, !.error = message]

SuccessResponse(input, i, fraud, payment) ==
    [status |-> StatusOK, success |-> TRUE, error |-> "", hasData |-> TRUE,
     originalInput |-> input, parsedIntent |-> i, fraudAnalysis |-> fraud,
     formattedPayment |-> payment, processingTimestamp |-> NowInstant]

(***************************************************************************)
(* Inputs: request bodies and gateway responses.  The gateway's JSON is    *)
(* not validated, so a key may be missing, null or of another type than    *)
(* the prompt asks for.  confidence is written in hundredths.              *)
(***************************************************************************)
RequestInputs == {Undefined, Str(<<>>), Num(50), Str(sPayJohn)}

CurrencyVals == {Undefined, Null, Str(<<>>), Str(sEUR), Str(sGBP)}
TypeVals == {Str(sSEPA), Str(sFasterPayments), Str(sUnknown)}

ExtractionObjects ==
    [recipientName : {Null, Str(sJohn)},
     iban : {Null, Num(31926819), Str(sExampleIban)},
     amount : {Undefined, Num(50)},
     currency : CurrencyVals,
     reference : {Undefined, Num(12345), Str(sLongRef)},
     confidence : {Num(90)},
     suggestedPaymentType : TypeVals \cup {Undefined},
     reasoning : {Str(sShortRef)}]

\* the objects that are also sent inside a fence
FencedExtractionObjects ==
    {o \in ExtractionObjects :
        o.recipientName = Null /\ o.iban = Null /\ o.amount = Undefined
            /\ o.reference = Undefined}

ScoreVals == {Undefined, Num(0), Num(LowBand - 1), Num(LowBand), Num(HighBand), Num(MaxScore)}

ScoringObjects ==
    [riskLevel : {Undefined, Str(sLow), Str(sMedium), Str(sHigh)},
     score : ScoreVals,
     flags : {Undefined, Arr(<<>>), Arr(<<"Urgent payment request">>)},
     recommendation : {Str(sShortRef)}]

FencedScoringObjects ==
    {o \in ScoringObjects : o.riskLevel = Str(sLow) /\ o.flags = Undefined}

NonObjects == {Json("invalid", NoKeys), Json("null", NoKeys), Json("scalar", NoKeys)}

Responses(objects, fenced) ==
    {Raise, Empty}
        \cup {Content(t) : t \in UNION {Fenced(j) : j \in NonObjects}}
        \cup {Content(Bare(Json("object", o))) : o \in objects}
        \cup {Content(t) : t \in UNION {Fenced(Json("object", o)) : o \in fenced}}

ExtractionResponses == Responses(ExtractionObjects, FencedExtractionObjects)
ScoringResponses == Responses(ScoringObjects, FencedScoringObjects)

\* values of the declared type PaymentIntent, for calls of the formatters
TypedIntents ==
    [recipientName : {Undefined, Str(sJohn)},
     iban : {Undefined, Null} \cup {Str(x) : x \in Ibans},
     amount : {Undefined, Num(50)},
     currency : CurrencyVals,
     reference : {Undefined} \cup {Str(r) : r \in Refs},
     confidence : {Num(90)},
     suggestedPaymentType : TypeVals]

(***************************************************************************)
(* The pipeline of one request.                                            *)
(***************************************************************************)
Init ==
    /\ pc = "idle"
    /\ userInput = Undefined
    /\ extResp = NoResp
    /\ intent = NoIntent
    /\ scoreResp = NoResp
    /\ fraudAnalysis = NoFraud
    /\ formattedPayment = NotFormatted
    /\ response = NoResponse
    /\ failCause = "none"
    /\ extractCalls = 0
    /\ scoreCalls = 0
    /\ scoringArg = NoIntent

\* the catch blocks of processPaymentIntent and POST: status 500, no data
Fail(cause) ==
    /\ pc' = "done"
    /\ failCause' = cause
    /\ response' = ErrorResponse(StatusServerError, "Failed to process payment intent")

\* POST up to the first await inside extractPaymentIntent
POST(input) ==
    /\ pc = "idle"
    /\ userInput' = input
    /\ IF ~Truthy(input) \/ input.t # "string"
       THEN /\ pc' = "done"
            /\ failCause' = "input"
            /\ response' = ErrorResponse(StatusBadRequest, "Invalid payment instruction")
            /\ UNCHANGED extractCalls
       ELSE /\ pc' = "extracting"
            /\ extractCalls' = extractCalls + 1
            /\ UNCHANGED <<failCause, response>>
    /\ UNCHANGED <<extResp, intent, scoreResp, fraudAnalysis, formattedPayment, scoreCalls,
                   scoringArg>>

\* the extraction completion settles: the rest of extractPaymentIntent, then
\* processPaymentIntent up to the await inside analyzeFraudRisk
extractPaymentIntent(resp) ==
    /\ pc = "extracting"
    /\ extResp' = resp
    /\ IF ExtractionThrows(resp)
       THEN /\ Fail("extraction")
            /\ UNCHANGED <<intent, scoreCalls, scoringArg>>
       ELSE /\ intent' = extractedIntent(cleanResponse(resp.content).json)
            /\ pc' = "scoring"
            /\ scoreCalls' = scoreCalls + 1
            /\ scoringArg' = extractedIntent(cleanResponse(resp.content).json)
            /\ UNCHANGED <<failCause, response>>
    /\ UNCHANGED <<userInput, scoreResp, fraudAnalysis, formattedPayment, extractCalls>>

\* the scoring completion settles: the rest of analyzeFraudRisk, the return of
\* processPaymentIntent, then POST to its response
analyzeFraudRisk(resp) ==
    /\ pc = "scoring"
    /\ scoreResp' = resp
    /\ IF resp.kind = "raise"
       THEN /\ Fail("scoring")
            /\ UNCHANGED <<fraudAnalysis, formattedPayment>>
       ELSE /\ fraudAnalysis' = fraudRiskOf(resp)
            /\ IF FormatThrows(intent)
               THEN /\ Fail("format")
                    /\ UNCHANGED formattedPayment
               ELSE /\ formattedPayment' = formatByType(intent)
                    /\ pc' = "done"
                    /\ response' = SuccessResponse(userInput, intent, fraudRiskOf(resp),
                                                   formatByType(intent))
                    /\ UNCHANGED failCause
    /\ UNCHANGED <<userInput, extResp, intent, extractCalls, scoreCalls, scoringArg>>

Next ==
    \/ \E input \in RequestInputs : POST(input)
    \/ \E resp \in ExtractionResponses : extractPaymentIntent(resp)
    \/ \E resp \in ScoringResponses : analyzeFraudRisk(resp)

Spec == Init /\ [][Next]_vars

(***************************************************************************)
(* The formatting step on its own, applied to any value of PaymentIntent.  *)
(***************************************************************************)
InitFormat ==
    /\ pc = "format"
    /\ userInput = Undefined
    /\ extResp = NoResp
    /\ intent \in TypedIntents
    /\ scoreResp = NoResp
    /\ fraudAnalysis = NoFraud
    /\ formattedPayment = NotFormatted
    /\ response = NoResponse
    /\ failCause = "none"
    /\ extractCalls = 0
    /\ scoreCalls = 0
    /\ scoringArg = NoIntent

Format ==
    /\ pc = "format"
    /\ formattedPayment' = formatByType(intent)
    /\ pc' = "formatted"
    /\ UNCHANGED <<userInput, extResp, intent, scoreResp, fraudAnalysis, response,
                   failCause, extractCalls, scoreCalls, scoringArg>>

NextFormat == Format

SpecFormat == InitFormat /\ [][NextFormat]_vars

(***************************************************************************)
(* Properties.                                                             *)
(***************************************************************************)
\* the extraction completion has settled / the scoring completion has settled
ExtractionSettled == extResp.kind # "none"
ScoringSettled == scoreResp.kind # "none"

\* the text of a response, after fence stripping, is a JSON record
IsRecord(resp) == resp.kind = "content" /\ cleanResponse(resp.content).json.j = "object"

\* the text of a response, after fence stripping, is not valid JSON
IsUnparseable(resp) == resp.kind = "content" /\ cleanResponse(resp.content).json.j = "invalid"

Failed == response.status = StatusServerError /\ ~response.success /\ ~response.hasData
Succeeded == response.status = StatusOK /\ response.success /\ response.hasData

\* C1: whenever the extraction gateway call returned empty content, or content
\* that after fence stripping is not a JSON record, the request ends in the
\* failure response with no data, and no scoring call is ever issued.
C1_ExtractionFailureAborts ==
    (ExtractionSettled /\ extResp.kind # "raise" /\ ~IsRecord(extResp))
        => (pc = "done" /\ Failed /\ scoreCalls = 0)

\* C2: once extraction has succeeded, a scoring call that returns empty content
\* ends in a success response whose fraud assessment is exactly
\* {medium, 50, ["Analysis unavailable"]}, and one that returns unparseable
\* content in a success response with exactly {medium, 50, ["Analysis error"]};
\* in both the response carries the extracted intent and its formatted payment.
C2_ScoringDegradesInPlace ==
    (ScoringSettled /\ (scoreResp.kind = "empty" \/ IsUnparseable(scoreResp)))
        => /\ pc = "done"
           /\ Succeeded
           /\ scoreResp.kind = "empty" => response.fraudAnalysis = AnalysisUnavailable
           /\ IsUnparseable(scoreResp) => response.fraudAnalysis = AnalysisError
           /\ response.parsedIntent = intent
           /\ response.formattedPayment = formatByType(intent)

\* C3: once extraction has succeeded, every outcome of the scoring call
\* (content, empty content, unparseable content, the call raising) ends in a
\* success response, and every failure of the pipeline has a failed extraction
\* as its cause.
C3_ScorerNeverFailsPipeline ==
    /\ ScoringSettled => (pc = "done" /\ Succeeded)
    /\ response.status = StatusServerError => (ExtractionSettled /\ ExtractionThrows(extResp))

\* the banding policy: score < 30 is low, 30 <= score < 70 is medium, score >= 70 is high
Banded(f) ==
    /\ f.score.t = "number"
    /\ f.score.n < LowBand => f.riskLevel = Str(sLow)
    /\ (LowBand <= f.score.n /\ f.score.n < HighBand) => f.riskLevel = Str(sMedium)
    /\ f.score.n >= HighBand => f.riskLevel = Str(sHigh)

\* C4: every fraud assessment returned to the caller satisfies the banding policy.
C4_AssessmentIsBanded ==
    (pc = "done" /\ response.hasData) => Banded(response.fraudAnalysis)

\* C5: for every intent the extractor produced, once the scoring call has
\* resolved the formatting step runs without failing and returns the variant
\* its suggestedPaymentType determines: a SEPA payment for SEPA, a Faster
\* Payments payment for FasterPayments, and no payment otherwise.
C5_FormatIsTotal ==
    (ScoringSettled /\ scoreResp.kind # "raise")
        => /\ pc = "done"
           /\ Succeeded
           /\ response.formattedPayment.paymentType =
                IF intent.suggestedPaymentType = Str(sSEPA) THEN "SEPA"
                ELSE IF intent.suggestedPaymentType = Str(sFasterPayments)
                     THEN "FasterPayments"
                     ELSE "null"

\* a required field of the scheme payload is absent from the intent
RequiredFieldAbsent(i) == Nullish(i.recipientName) \/ Nullish(i.iban) \/ Nullish(i.amount)

\* C6: an intent that suggests SEPA or FasterPayments but lacks the recipient
\* name, the account identifier or the amount is returned unformatted.
C6_FormatterValidatesFields ==
    (pc = "done" /\ response.hasData
        /\ intent.suggestedPaymentType \in {Str(sSEPA), Str(sFasterPayments)}
        /\ RequiredFieldAbsent(intent))
        => response.formattedPayment = NullPayment

IsPrefix(p, q) == Len(p) <= Len(q) /\ \A k \in 1..Len(p) : p[k] = q[k]

\* C7: a FasterPayments intent is formatted as a Faster Payments payment whose
\* currency is GBP whatever the intent's currency, and whose reference is the
\* prefix of the intent's reference of at most 18 characters (the whole
\* reference when it has 18 characters or fewer).
C7_FasterPaymentsCurrencyAndReference ==
    (pc = "formatted" /\ intent.suggestedPaymentType = Str(sFasterPayments))
        => /\ formattedPayment.paymentType = "FasterPayments"
           /\ formattedPayment.currency = Str(sGBP)
           /\ intent.reference.t = "string"
                => /\ formattedPayment.reference.t = "string"
                   /\ Len(formattedPayment.reference.s) <= RefLimit
                   /\ Len(formattedPayment.reference.s) = Min(RefLimit, Len(intent.reference.s))
                   /\ IsPrefix(formattedPayment.reference.s, intent.reference.s)
                   /\ Len(intent.reference.s) <= RefLimit
                        => formattedPayment.reference = intent.reference

C7_Witness ==
    /\ pc = "formatted"
    /\ intent.suggestedPaymentType = Str(sFasterPayments)
    /\ intent.currency = Str(sEUR)
    /\ Len(intent.reference.s) > RefLimit
    /\ formattedPayment.currency = Str(sGBP)
    /\ Len(formattedPayment.reference.s) = RefLimit

\* the currency of an intent is present: a non-empty string
CurrencyGiven(v) == v.t = "string" /\ Len(v.s) > 0

\* C8: a SEPA intent is formatted as a SEPA payment that copies recipientName,
\* iban, amount and reference unchanged, with the intent's currency when it is
\* present and EUR when it is absent.
C8_SEPACopiesFields ==
    (pc = "formatted" /\ intent.suggestedPaymentType = Str(sSEPA))
        => /\ formattedPayment.paymentType = "SEPA"
           /\ formattedPayment.creditorName = intent.recipientName
           /\ formattedPayment.creditorIBAN = intent.iban
           /\ formattedPayment.amount = intent.amount
           /\ formattedPayment.remittanceInformation = intent.reference
           /\ CurrencyGiven(intent.currency) => formattedPayment.currency = intent.currency
           /\ ~CurrencyGiven(intent.currency) => formattedPayment.currency = Str(sEUR)

C8_Witness ==
    /\ pc = "formatted"
    /\ intent.suggestedPaymentType = Str(sSEPA)
    /\ intent.currency = Undefined
    /\ formattedPayment.currency = Str(sEUR)
    /\ intent.iban = Str(sExampleIban)
    /\ formattedPayment.creditorIBAN = Str(sExampleIban)

\* C9: for every gateway extraction response that is a JSON record, the
\* extracted intent has a non-empty currency, the gateway's when it gives one
\* and EUR when it omits it or gives null or the empty string, and every
\* other field is the gateway's.
C9_CurrencyNeverEmpty ==
    (ExtractionSettled /\ IsRecord(extResp))
        => LET declared == extResp.content.json.rec
           IN  /\ CurrencyGiven(intent.currency)
               /\ CurrencyGiven(declared.currency) => intent.currency = declared.currency
               /\ ~CurrencyGiven(declared.currency) => intent.currency = Str(sEUR)
               /\ intent.recipientName = declared.recipientName
               /\ intent.iban = declared.iban
               /\ intent.amount = declared.amount
               /\ intent.reference = declared.reference
               /\ intent.confidence = declared.confidence
               /\ intent.suggestedPaymentType = declared.suggestedPaymentType

C9_Witness ==
    /\ pc = "scoring"
    /\ IsRecord(extResp)
    /\ extResp.content.fenceOpen = "json"
    /\ extResp.content.json.rec.currency = Null
    /\ intent.currency = Str(sEUR)

\* the digits of a string, in order
RECURSIVE DigitsIn(_)
DigitsIn(chars) ==
    IF chars = <<>> THEN <<>>
    ELSE IF Head(chars) \in {DigitChars[k] : k \in 1..Len(DigitChars)}
         THEN <<Head(chars)>> \o DigitsIn(Tail(chars))
         ELSE DigitsIn(Tail(chars))

\* the characters of chars at the 0-based positions from..to-1
Between(chars, from, to) == [k \in 1..(to - from) |-> chars[from + k]]

\* C10: for a FasterPayments intent with an iban whose digits are D, of length
\* n, payeeAccountNumber is the last min(8, n) digits of D and sortCode the
\* digits of D from position max(0, n-14) up to but excluding n-8 (empty when
\* n <= 8); so for n >= 14 the account number has 8 digits, the sort code 6,
\* and together they are the last 14 digits of D.
C10_AccountNumberAndSortCode ==
    (pc = "formatted" /\ intent.suggestedPaymentType = Str(sFasterPayments)
        /\ intent.iban.t = "string")
        => LET D == DigitsIn(intent.iban.s)
               n == Len(D)
               account == formattedPayment.payeeAccountNumber
               sort == formattedPayment.sortCode
           IN  /\ account = Str(Between(D, n - Min(AccountDigits, n), n))
               /\ sort = Str(IF n <= AccountDigits THEN <<>>
                             ELSE Between(D, Max(0, n - SortCodeStart), n - AccountDigits))
               /\ n >= SortCodeStart
                    => /\ Len(account.s) = AccountDigits
                       /\ Len(sort.s) = SortCodeStart - AccountDigits
                       /\ sort.s \o account.s = Between(D, n - SortCodeStart, n)

C10_Witness ==
    /\ pc = "formatted"
    /\ intent.suggestedPaymentType = Str(sFasterPayments)
    /\ intent.iban.t = "string"
    /\ Len(DigitsIn(intent.iban.s)) > SortCodeStart
    /\ Len(intent.iban.s) > Len(DigitsIn(intent.iban.s))
    /\ Len(formattedPayment.sortCode.s) = SortCodeStart - AccountDigits
    /\ Len(formattedPayment.payeeAccountNumber.s) = AccountDigits

\* C11: for every scoring response that parses to a record, the assessment
\* carries the gateway's score whenever the response declares one (every
\* number, 0 included) and 50 only when the score key is absent, and the
\* gateway's flags when present and the empty sequence only when absent.
C11_DeclaredScoreAndFlagsKept ==
    (ScoringSettled /\ IsRecord(scoreResp))
        => LET declared == scoreResp.content.json.rec
           IN  /\ declared.score.t = "number" => fraudAnalysis.score = declared.score
               /\ declared.score = Undefined => fraudAnalysis.score = Num(DefaultScore)
               /\ declared.flags.t = "array" => fraudAnalysis.flags = declared.flags
               /\ declared.flags = Undefined => fraudAnalysis.flags = Arr(<<>>)

\* the extraction completion carried text that parsed to a value with readable keys
ExtractionReturned ==
    /\ extResp.kind = "content"
    /\ cleanResponse(extResp.content).json.j \in {"object", "scalar"}

\* C12: the steps of a run occur in the order extract, assess, format: the
\* scoring call is issued only once extraction has returned an intent and is
\* given that intent, formatting happens only once the assessment has been
\* returned and uses that intent, and a run issues at most one extraction
\* call and at most one scoring call.
C12_ExtractAssessFormatOrder ==
    /\ extractCalls <= 1
    /\ scoreCalls <= 1
    /\ scoreCalls <= extractCalls
    /\ scoreCalls > 0 => (ExtractionReturned /\ scoringArg = intent)
    /\ ScoringSettled => scoreCalls > 0
    /\ formattedPayment # NotFormatted
        => /\ ScoringSettled
           /\ scoreResp.kind # "raise"
           /\ fraudAnalysis # NoFraud
           /\ formattedPayment.paymentType \in {"SEPA", "FasterPayments"}
                => (formattedPayment.amount = intent.amount
                    /\ formattedPayment.paymentType =
                         IF intent.suggestedPaymentType = Str(sSEPA) THEN "SEPA"
                         ELSE "FasterPayments")
    /\ response.hasData
        => /\ formattedPayment # NotFormatted
           /\ response.parsedIntent = scoringArg
           /\ response.fraudAnalysis = fraudAnalysis
           /\ response.formattedPayment = formattedPayment

C12_Witness ==
    /\ pc = "done"
    /\ Succeeded
    /\ extractCalls = 1
    /\ scoreCalls = 1
    /\ scoringArg = intent
    /\ intent.suggestedPaymentType = Str(sFasterPayments)
    /\ formattedPayment.paymentType = "FasterPayments"
    /\ IsRecord(scoreResp)
====
